---- MODULE Spec2Model ----
(***************************************************************************)
(* Model of src/main.py: the Telegram handlers text_handler, photo_handler *)
(* and handle_generation, the gateway functions generate_image_from_*      *)
(* and the per-chat memory LAST_IMAGE_BY_CHAT.                             *)
(*                                                                         *)
(* Every handler is a coroutine.  It runs without interruption from one    *)
(* `await` to the next, so an action of the model is the block of code     *)
(* between two awaits: the awaited call returns (normally or by raising)   *)
(* and the coroutine runs on until it issues its next awaited call.  The   *)
(* gateway functions are plain synchronous functions, so the gateway call  *)
(* and the store into LAST_IMAGE_BY_CHAT (line 247) belong to the block    *)
(* that starts when `await context.bot.send_message` returns.  Several     *)
(* invocations may be suspended at the same time and resume in any order.  *)
(*                                                                         *)
(* Text is a tuple of characters.  The Cyrillic letters of the source are  *)
(* written by their Latin transliteration, one string per character        *)
(* ("yu" is the single letter U+044E); capital letters are the capital     *)
(* Latin letter.                                                           *)
(***************************************************************************)
EXTENDS Naturals, Sequences, FiniteSets, TLC

\* ----------------------------------------------------------------- bounds
MaxInv == 2        \* number of handler invocations (inbound messages)
NumChats == 2      \* number of distinct originating chats

Invs == 1..MaxInv
Chats == 1..NumChats

None == "None"

\* ------------------------------------------------------------- text model
Whitespace == {" ", "\t"}

LowerOf(c) ==
    CASE c = "O" -> "o"
      [] c = "I" -> "i"
      [] c = "S" -> "s"
      [] c = "K" -> "k"
      [] c = "T" -> "t"
      [] OTHER -> c

\* str.lower()
lower(s) == [k \in 1..Len(s) |-> LowerOf(s[k])]

RECURSIVE lstrip(_)
lstrip(s) == IF s # <<>> /\ Head(s) \in Whitespace THEN lstrip(Tail(s)) ELSE s

RECURSIVE rstrip(_)
rstrip(s) ==
    IF s # <<>> /\ s[Len(s)] \in Whitespace THEN rstrip(SubSeq(s, 1, Len(s) - 1)) ELSE s

\* str.strip()
strip(s) == rstrip(lstrip(s))

\* str.startswith(p)
startswith(s, p) == Len(s) >= Len(p) /\ SubSeq(s, 1, Len(p)) = p

EditPrefix1 == <<"o", "t", "r", "e", "d", "a", "k", "t", "i", "r", "u", "j">>
EditPrefix2 == <<"i", "z", "m", "e", "n", "i", " ", "k", "a", "r", "t", "i", "n", "k", "u">>
EditPrefix3 == <<"s", "d", "e", "l", "a", "j", " ", "v", "a", "r", "i", "a", "c", "i", "yu">>

\* text_handler, lines 170-174
is_edit_command(low) ==
    \/ startswith(low, EditPrefix1)
    \/ startswith(low, EditPrefix2)
    \/ startswith(low, EditPrefix3)

\* photo_handler, lines 210-213: the fixed art-variation prompt
DefaultPrompt == <<"S", "d", "e", "l", "a", "j", " ", "b", "o", "l", "e", "e">>

\* ----------------------------------------------------------------- inputs
\* message.text of the inbound text messages
TextInputs ==
    { <<>>,
      <<"d", "a">>,
      <<"k", "o", "t">>,
      <<" ", "O", "t", "r", "e", "d", "a", "k", "t", "i", "r", "u", "j", ":", "x", " ">>,
      <<"S", "d", "e", "l", "a", "j", " ", "v", "a", "r", "i", "a", "c", "i", "yu">> }

\* message.caption of the inbound photo messages: an optional string is a
\* tuple of no string (Python's None) or of one string
NoCaption == <<>>
CaptionInputs ==
    { NoCaption, << <<" ", "\t">> >>, << <<"p", "o", "p">> >>, << <<"\t", "a", "b", " ">> >> }

\* bytes of the photos users upload
Uploads == {"U1"}

\* images the model endpoint may return as inline data
ModelImages == {"G1", "G2"}

\* a response part: inline_data is None (a text part) or an image
TextPart == [inline_data |-> None]
ImagePart(g) == [inline_data |-> g]

\* outcomes of client.models.generate_content: it raises, or returns a
\* response whose parts are one of these sequences
TransportError == [raises |-> TRUE, parts |-> <<>>]
Response(parts) == [raises |-> FALSE, parts |-> parts]
ResponseParts ==
    { <<>>,
      <<TextPart>>,
      <<ImagePart("G1")>>,
      <<TextPart, ImagePart("G2")>>,
      <<ImagePart("G2"), ImagePart("G1")>>,
      <<ImagePart("G1"), TextPart>> }

\* part.as_image() saved as PNG and read back (lines 70-80): the bytes of
\* the result are the PNG encoding of the part's image
Png(g) == "png:" \o g

Outcomes == {TransportError} \cup {Response(p) : p \in ResponseParts}

\* ------------------------------------------------------------------ state
VARIABLES
    OWNER_CHAT_ID,       \* line 37: os.getenv("OWNER_CHAT_ID")
    ZENMUX_API_KEY,      \* line 49: os.getenv("ZENMUX_API_KEY")
    _genai_client,       \* line 34: the lazily built client, or None
    LAST_IMAGE_BY_CHAT,  \* line 40: dict chat_id -> bytes
    tmp_files,           \* number of /tmp/zenmux_*.png files on disk
    inv,                 \* the handler invocations: locals and position
    latest               \* history: per chat, the result of the successful
                         \* generation that finished last (None: none yet)

vars == <<OWNER_CHAT_ID, ZENMUX_API_KEY, _genai_client, LAST_IMAGE_BY_CHAT,
          tmp_files, inv, latest>>

config == <<OWNER_CHAT_ID, ZENMUX_API_KEY>>

OwnerIds == {None, "", "owner"}
ApiKeys == {None, "key"}

\* Python truthiness of an optional string
Truthy(x) == x # None /\ x # ""

\* an invocation that has not started: no message received yet
IdleRec ==
    [ pc |-> "idle",             \* the await the coroutine is suspended at
      kind |-> None,             \* "text" or "photo": the handler that runs
      chat_id |-> 0,
      photo |-> None,            \* photo_handler: bytes of the uploaded photo
      caption |-> NoCaption,          \* photo_handler: message.caption
      prompt |-> <<>>,
      has_last_image |-> FALSE,  \* text_handler local
      is_edit_command |-> FALSE, \* text_handler local
      base_image_bytes |-> None,
      hg |-> FALSE,              \* handle_generation was entered
      wait |-> "none",           \* the placeholder message as the chat shows it
      gw |-> "none",             \* gateway function called
      gw_calls |-> 0,            \* calls of client.models.generate_content
      image_bytes |-> None,      \* the reference handed to the gateway function
      response |-> <<>>,         \* response.parts of the call that returned
      last_at_call |-> None,     \* LAST_IMAGE_BY_CHAT[chat_id] when the gateway was
                                 \* called to edit the stored image
      err |-> "none",            \* failure kind of the except branch taken
      img_buf |-> None,
      user_photo |-> "none",     \* send_photo to the originating chat
      wait_delete |-> "none",    \* wait.delete()
      owner_buf |-> None,
      owner_photo |-> "none",    \* send_photo to OWNER_CHAT_ID
      reply |-> "none",          \* reply_text("nothing to edit")
      exc |-> "none" ]           \* the call whose exception left the handler

Init ==
    /\ OWNER_CHAT_ID \in OwnerIds
    /\ ZENMUX_API_KEY \in ApiKeys
    /\ _genai_client = None
    /\ LAST_IMAGE_BY_CHAT = [c \in {} |-> None]
    /\ tmp_files = 0
    /\ inv = [i \in Invs |-> IdleRec]
    /\ latest = [c \in Chats |-> None]

\* ---------------------------------------------------------------- gateway
\* mutant of FirstInline: the loop does not stop at the first image, the
\* last part with inline_data wins
FirstInline_last(parts) ==
    LET idx == {k \in 1..Len(parts) : parts[k].inline_data # None}
    IN  IF idx = {} THEN None
        ELSE parts[CHOOSE k \in idx : \A m \in idx : m <= k].inline_data

RECURSIVE FirstInline(_)
\* lines 68-69: the first part whose inline_data is set, None when there is none
FirstInline(parts) ==
    IF parts = <<>> THEN None
    ELSE IF Head(parts).inline_data # None THEN Head(parts).inline_data
    ELSE FirstInline(Tail(parts))

\* lines 66-82
_extract_image_from_response(parts) ==
    LET g == FirstInline(parts) IN
    IF g # None
    THEN [ok |-> TRUE, data |-> Png(g), err |-> "none", tmp |-> 1]
    ELSE [ok |-> FALSE, data |-> None, err |-> "NoImage", tmp |-> 0]

\* lines 43-63: the client after the call, None when RuntimeError is raised
get_genai_client(client, api_key) ==
    IF client # None THEN client
    ELSE IF ~Truthy(api_key) THEN None
    ELSE "client"

\* lines 85-101 and 104-128: `outcome` is what generate_content does
generate_image(client, api_key, outcome) ==
    LET cl == get_genai_client(client, api_key) IN
    IF cl = None
    THEN [ok |-> FALSE, data |-> None, err |-> "NoApiKey", tmp |-> 0,
          calls |-> 0, client |-> None]
    ELSE IF outcome.raises
    THEN [ok |-> FALSE, data |-> None, err |-> "Transport", tmp |-> 0,
          calls |-> 1, client |-> cl]
    ELSE LET x == _extract_image_from_response(outcome.parts) IN
         [ok |-> x.ok, data |-> x.data, err |-> x.err, tmp |-> x.tmp,
          calls |-> 1, client |-> cl]

\* lines 237-240: which gateway function handle_generation calls
GatewayFunction(base_image_bytes) ==
    IF base_image_bytes = None THEN "generate_image_from_text"
    ELSE "generate_image_from_image"

\* mutant of StoreLastImage: setdefault, an existing entry is kept
StoreLastImage_keep_first(mem, c, bytes) ==
    [x \in DOMAIN mem \cup {c} |-> IF x \in DOMAIN mem THEN mem[x] ELSE bytes]

\* mutant of StoreLastImage: one last image for all chats
StoreLastImage_all_chats(mem, c, bytes) ==
    [x \in DOMAIN mem \cup {c} |-> bytes]

\* line 247: LAST_IMAGE_BY_CHAT[chat_id] = img_buf.getvalue()
StoreLastImage(mem, c, bytes) ==
    [x \in DOMAIN mem \cup {c} |-> IF x = c THEN bytes ELSE mem[x]]

\* mutant of store_result: the store is made whatever the gateway did
store_result_always(mem, c, ok, bytes) == StoreLastImage(mem, c, bytes)

\* lines 236-247: the store is reached only when the gateway call returned
store_result(mem, c, ok, bytes) ==
    IF ok THEN StoreLastImage(mem, c, bytes) ELSE mem

\* mutant of GatewayReference: the reference is read again from the memory
\* when the gateway is called
GatewayReference_reread(base_image_bytes, mem, c) ==
    IF base_image_bytes = None \/ c \notin DOMAIN mem THEN base_image_bytes
    ELSE mem[c]

\* line 240: the reference handed to generate_image_from_image is the
\* parameter base_image_bytes
GatewayReference(base_image_bytes, mem, c) == base_image_bytes

\* line 274: owner_buf = BytesIO(LAST_IMAGE_BY_CHAT[chat_id])
OwnerBuf(mem, c, img_buf) == mem[c]

\* --------------------------------------------------------------- handlers
\* invocation i takes the next inbound message: the slots are filled in order
CanStart(i) ==
    /\ inv[i].pc = "idle"
    /\ IF i = 1 THEN TRUE ELSE inv[i - 1].pc # "idle"

\* lines 225-234: handle_generation is entered and awaits send_message
handle_generation(r, prompt, base_image_bytes) ==
    [r EXCEPT !.hg = TRUE, !.prompt = prompt,
              !.base_image_bytes = base_image_bytes, !.pc = "send_message"]

\* mutant of TextBranch: an edit request without a stored image is handled
\* as a fresh generation
TextBranch_downgrade(is_edit, has_last) ==
    IF is_edit /\ has_last THEN "EditLastImage" ELSE "FreshGeneration"

\* mutant of TextBranch: any text of a chat with a stored image edits it
TextBranch_use_memory(is_edit, has_last) ==
    IF has_last THEN "EditLastImage"
    ELSE IF is_edit THEN "EditRequestedButNoImage"
    ELSE "FreshGeneration"

\* lines 176-186: the branch text_handler takes
TextBranch(is_edit, has_last) ==
    IF is_edit /\ has_last THEN "EditLastImage"
    ELSE IF is_edit /\ ~has_last THEN "EditRequestedButNoImage"
    ELSE "FreshGeneration"

\* lines 159-186, up to the first await
text_handler(r, c, text, mem) ==
    LET prompt == strip(text)
        low == lower(prompt)
        has_last == c \in DOMAIN mem
        is_edit == is_edit_command(low)
        branch == TextBranch(is_edit, has_last)
        r1 == [r EXCEPT !.kind = "text", !.chat_id = c, !.prompt = prompt,
                        !.has_last_image = has_last, !.is_edit_command = is_edit]
    IN  IF text = <<>>
        THEN [r EXCEPT !.kind = "text", !.chat_id = c, !.pc = "done"]
        ELSE IF branch = "EditLastImage" THEN handle_generation(r1, prompt, mem[c])
        ELSE IF branch = "EditRequestedButNoImage" THEN [r1 EXCEPT !.pc = "reply_text"]
        ELSE handle_generation(r1, prompt, None)

\* text_handler runs for a text message of one of `chats` with one of `texts`
TextHandlerOn(i, chats, texts) ==
    /\ CanStart(i)
    /\ \E c \in chats, text \in texts :
          inv' = [inv EXCEPT ![i] = text_handler(inv[i], c, text, LAST_IMAGE_BY_CHAT)]
    /\ UNCHANGED <<config, _genai_client, LAST_IMAGE_BY_CHAT, tmp_files, latest>>

TextHandler(i) == TextHandlerOn(i, Chats, TextInputs)

\* lines 180-183: reply_text returns
ReplyTextReturns(i) ==
    /\ inv[i].pc = "reply_text"
    /\ \/ inv' = [inv EXCEPT ![i].reply = "ok", ![i].pc = "done"]
       \/ inv' = [inv EXCEPT ![i].reply = "failed", ![i].pc = "raised",
                             ![i].exc = "reply_text"]
    /\ UNCHANGED <<config, _genai_client, LAST_IMAGE_BY_CHAT, tmp_files, latest>>

\* lines 195-202: photo_handler up to `await context.bot.get_file`
PhotoHandlerOn(i, chats, captions) ==
    /\ CanStart(i)
    /\ \E c \in chats, photo \in Uploads, caption \in captions :
          inv' = [inv EXCEPT ![i].kind = "photo", ![i].chat_id = c,
                             ![i].photo = photo, ![i].caption = caption,
                             ![i].pc = "get_file"]
    /\ UNCHANGED <<config, _genai_client, LAST_IMAGE_BY_CHAT, tmp_files, latest>>

PhotoHandler(i) == PhotoHandlerOn(i, Chats, CaptionInputs)

\* lines 202-203: get_file returns, download_to_memory is awaited
GetFileReturns(i) ==
    /\ inv[i].pc = "get_file"
    /\ \/ inv' = [inv EXCEPT ![i].pc = "download_to_memory"]
       \/ inv' = [inv EXCEPT ![i].pc = "raised", ![i].exc = "get_file"]
    /\ UNCHANGED <<config, _genai_client, LAST_IMAGE_BY_CHAT, tmp_files, latest>>

\* mutant of PhotoPrompt: the caption is used as it was sent
PhotoPrompt_untrimmed(caption) ==
    LET cap == IF caption = NoCaption THEN <<>> ELSE caption[1]
    IN  IF strip(cap) # <<>> THEN cap ELSE DefaultPrompt

\* lines 206-213: the prompt of a photo message
PhotoPrompt(caption) ==
    LET cap == strip(IF caption = NoCaption THEN <<>> ELSE caption[1])
    IN  IF cap # <<>> THEN cap ELSE DefaultPrompt

\* lines 203-215: download_to_memory returns
DownloadReturns(i) ==
    /\ inv[i].pc = "download_to_memory"
    /\ \/ inv' = [inv EXCEPT ![i] =
                     handle_generation(inv[i], PhotoPrompt(inv[i].caption), inv[i].photo)]
       \/ inv' = [inv EXCEPT ![i].pc = "raised", ![i].exc = "download_to_memory"]
    /\ UNCHANGED <<config, _genai_client, LAST_IMAGE_BY_CHAT, tmp_files, latest>>

\* ------------------------------------------------------ handle_generation
\* mutant of on_generation_error: the failed request is started again
on_generation_error_retry(r, e) == [r EXCEPT !.err = e, !.pc = "send_message"]

\* lines 241-243: the except branch of the gateway call awaits wait.edit_text
on_generation_error(r, e) == [r EXCEPT !.err = e, !.pc = "edit_gen"]

\* lines 246-259: the result is kept and send_photo to the chat is awaited
on_generation_ok(r, data) == [r EXCEPT !.img_buf = data, !.pc = "send_photo"]

\* lines 227-259: send_message returns; the gateway is called synchronously
SendMessageReturns(i) ==
    /\ inv[i].pc = "send_message"
    /\ \/ /\ inv' = [inv EXCEPT ![i].pc = "raised", ![i].exc = "send_message"]
          /\ UNCHANGED <<_genai_client, LAST_IMAGE_BY_CHAT, tmp_files, latest>>
       \/ \E outcome \in Outcomes :
             LET g == generate_image(_genai_client, ZENMUX_API_KEY, outcome)
                 r == [inv[i] EXCEPT !.wait = "progress",
                                     !.gw = GatewayFunction(inv[i].base_image_bytes),
                                     !.gw_calls = @ + g.calls,
                                     !.image_bytes =
                                        GatewayReference(inv[i].base_image_bytes,
                                                         LAST_IMAGE_BY_CHAT,
                                                         inv[i].chat_id),
                                     !.response =
                                        IF g.calls = 1 THEN outcome.parts ELSE <<>>,
                                     !.last_at_call =
                                        IF inv[i].kind = "text"
                                           /\ inv[i].base_image_bytes # None
                                        THEN LAST_IMAGE_BY_CHAT[inv[i].chat_id]
                                        ELSE None]
                 rok == on_generation_ok(r, g.data)
             IN  /\ _genai_client' = g.client
                 /\ tmp_files' = tmp_files + g.tmp
                 /\ LAST_IMAGE_BY_CHAT' =
                       store_result(LAST_IMAGE_BY_CHAT, r.chat_id, g.ok, rok.img_buf)
                 /\ IF g.ok
                    THEN /\ inv' = [inv EXCEPT ![i] = rok]
                         /\ latest' = [latest EXCEPT ![r.chat_id] = g.data]
                    ELSE /\ inv' = [inv EXCEPT ![i] = on_generation_error(r, g.err)]
                         /\ UNCHANGED latest
    /\ UNCHANGED config

\* line 243 and lines 266-269: wait.edit_text returns; the handler returns
\* or the exception of edit_text leaves handle_generation
EditTextReturns(i) ==
    /\ inv[i].pc \in {"edit_gen", "edit_deliv"}
    /\ \/ inv' = [inv EXCEPT ![i].wait = IF inv[i].pc = "edit_gen" THEN "gen_error"
                                         ELSE "deliv_error",
                             ![i].pc = "done"]
       \/ inv' = [inv EXCEPT ![i].pc = "raised", ![i].exc = "edit_text"]
    /\ UNCHANGED <<config, _genai_client, LAST_IMAGE_BY_CHAT, tmp_files, latest>>

\* lines 259-261: the photo is delivered, wait.delete() is awaited
on_delivery_ok(r) == [r EXCEPT !.user_photo = "ok", !.pc = "delete"]

\* mutant of on_delivery_error: no `return` at line 269, the owner's copy
\* is sent after the failed delivery
on_delivery_error_no_return(r) ==
    [r EXCEPT !.user_photo = "failed", !.err = "Delivery", !.owner_buf = r.img_buf,
              !.owner_photo = "sending", !.pc = "owner_photo"]

\* lines 264-268: delivery failed, wait.edit_text is awaited
on_delivery_error(r) ==
    [r EXCEPT !.user_photo = "failed", !.err = "Delivery", !.pc = "edit_deliv"]

\* lines 254-268: send_photo to the originating chat returns
SendPhotoReturns(i) ==
    /\ inv[i].pc = "send_photo"
    /\ \/ inv' = [inv EXCEPT ![i] = on_delivery_ok(inv[i])]
       \/ inv' = [inv EXCEPT ![i] = on_delivery_error(inv[i])]
    /\ UNCHANGED <<config, _genai_client, LAST_IMAGE_BY_CHAT, tmp_files, latest>>

\* mutant of owner_copy: `if OWNER_CHAT_ID is not None`
owner_copy_not_none(r, owner_chat_id, mem) ==
    IF owner_chat_id # None
    THEN [r EXCEPT !.owner_buf = OwnerBuf(mem, r.chat_id, r.img_buf),
                   !.owner_photo = "sending", !.pc = "owner_photo"]
    ELSE [r EXCEPT !.pc = "done"]

\* lines 272-283: the copy for the owner, when an owner chat is configured
owner_copy(r, owner_chat_id, mem) ==
    IF Truthy(owner_chat_id)
    THEN [r EXCEPT !.owner_buf = OwnerBuf(mem, r.chat_id, r.img_buf),
                   !.owner_photo = "sending", !.pc = "owner_photo"]
    ELSE [r EXCEPT !.pc = "done"]

\* mutant of after_delete: no inner try, the exception of wait.delete()
\* reaches the except branch of line 264
after_delete_outer_except(r, deleted, owner_chat_id, mem) ==
    IF deleted
    THEN owner_copy([r EXCEPT !.wait = "deleted", !.wait_delete = "ok"],
                    owner_chat_id, mem)
    ELSE [r EXCEPT !.wait_delete = "failed", !.err = "Delivery", !.pc = "edit_deliv"]

\* lines 260-283: the placeholder is gone, or the exception of wait.delete()
\* is swallowed (lines 262-263); the owner block follows in both cases
after_delete(r, deleted, owner_chat_id, mem) ==
    owner_copy(IF deleted THEN [r EXCEPT !.wait = "deleted", !.wait_delete = "ok"]
               ELSE [r EXCEPT !.wait_delete = "failed"],
               owner_chat_id, mem)

\* lines 260-283: wait.delete() returns or raises (swallowed)
DeleteReturns(i) ==
    /\ inv[i].pc = "delete"
    /\ \E deleted \in BOOLEAN :
          inv' = [inv EXCEPT ![i] =
                     after_delete(inv[i], deleted, OWNER_CHAT_ID, LAST_IMAGE_BY_CHAT)]
    /\ UNCHANGED <<config, _genai_client, LAST_IMAGE_BY_CHAT, tmp_files, latest>>

\* mutant of on_owner_error: the failure is reported in the placeholder
on_owner_error_reported(r) ==
    [r EXCEPT !.owner_photo = "failed", !.err = "Owner", !.pc = "edit_deliv"]

\* lines 284-285: the failure of the owner's copy is logged
on_owner_error(r) == [r EXCEPT !.owner_photo = "failed", !.pc = "done"]

\* lines 278-285: send_photo to OWNER_CHAT_ID returns
OwnerPhotoReturns(i) ==
    /\ inv[i].pc = "owner_photo"
    /\ \/ inv' = [inv EXCEPT ![i].owner_photo = "ok", ![i].pc = "done"]
       \/ inv' = [inv EXCEPT ![i] = on_owner_error(inv[i])]
    /\ UNCHANGED <<config, _genai_client, LAST_IMAGE_BY_CHAT, tmp_files, latest>>

Next ==
    \E i \in Invs :
       \/ TextHandler(i)
       \/ ReplyTextReturns(i)
       \/ PhotoHandler(i)
       \/ GetFileReturns(i)
       \/ DownloadReturns(i)
       \/ SendMessageReturns(i)
       \/ EditTextReturns(i)
       \/ SendPhotoReturns(i)
       \/ DeleteReturns(i)
       \/ OwnerPhotoReturns(i)

Spec == Init /\ [][Next]_vars

\* --------------------------------------- three text messages of one chat
\* The same handlers with more invocations and fewer inputs: every message
\* is a text message of chat 1, a plain text or an edit request; the API key
\* is set and no owner chat is configured, so the owner block is skipped.
MaxEditInv == 3

EditInvs == 1..MaxEditInv

EditTexts ==
    { <<"k", "o", "t">>,
      <<" ", "O", "t", "r", "e", "d", "a", "k", "t", "i", "r", "u", "j", ":", "x", " ">> }

InitEdit ==
    /\ OWNER_CHAT_ID = None
    /\ ZENMUX_API_KEY = "key"
    /\ _genai_client = None
    /\ LAST_IMAGE_BY_CHAT = [c \in {} |-> None]
    /\ tmp_files = 0
    /\ inv = [i \in EditInvs |-> IdleRec]
    /\ latest = [c \in Chats |-> None]

NextEdit ==
    \E i \in EditInvs :
       \/ TextHandlerOn(i, {1}, EditTexts)
       \/ ReplyTextReturns(i)
       \/ SendMessageReturns(i)
       \/ EditTextReturns(i)
       \/ SendPhotoReturns(i)
       \/ DeleteReturns(i)

SpecEdit == InitEdit /\ [][NextEdit]_vars

\* ----------------------------------------------------------------- claims
GeneratedBytes == {Png(g) : g \in ModelImages}

\* the except branch of lines 241-244 was taken
GatewayFailed(i) == inv[i].err \in {"NoApiKey", "Transport", "NoImage"}

\* the step from the current state to the next one is a step of invocation i
StepOf(i) == inv'[i] # inv[i]

\* messages of invocation i that its originating chat shows
UserMessages(i) ==
    (IF inv[i].wait \in {"progress", "gen_error", "deliv_error"} THEN 1 ELSE 0)
    + (IF inv[i].user_photo = "ok" THEN 1 ELSE 0)
    + (IF inv[i].reply = "ok" THEN 1 ELSE 0)

C1_State ==
    \A i \in Invs :
       GatewayFailed(i) =>
          /\ UserMessages(i) = 1
          /\ inv[i].wait \in {"progress", "gen_error"}
          /\ inv[i].img_buf = None
          /\ inv[i].user_photo = "none"
          /\ inv[i].owner_photo = "none" /\ inv[i].owner_buf = None
          /\ inv[i].pc \in {"edit_gen", "done", "raised"}
          /\ (inv[i].pc = "done" => inv[i].wait = "gen_error")
          /\ (inv[i].pc = "raised" => inv[i].exc = "edit_text")

C1_Step ==
    \A i \in Invs :
       (StepOf(i) /\ (inv[i].pc = "send_message" \/ GatewayFailed(i))
                  /\ inv'[i].err \in {"NoApiKey", "Transport", "NoImage"})
          => LAST_IMAGE_BY_CHAT' = LAST_IMAGE_BY_CHAT

\* C1: when the gateway call of an invocation fails, no step of that
\* invocation (the failing call included) changes LAST_IMAGE_BY_CHAT for any
\* chat; the chat shows exactly one message of the invocation, the
\* placeholder, whose edit to the error text is the only call still made (it
\* shows the error once the edit returns); no send_photo to the chat or to
\* the owner is issued.
C1_GatewayFailure == []C1_State /\ [][C1_Step]_vars

C1_Witness ==
    \E i \in Invs :
       /\ GatewayFailed(i) /\ inv[i].pc = "done" /\ inv[i].wait = "gen_error"
       /\ inv[i].chat_id \in DOMAIN LAST_IMAGE_BY_CHAT

\* C2: LAST_IMAGE_BY_CHAT has an entry for chat c exactly when a generation
\* for c has succeeded; the entry is the result of the successful generation
\* for c that finished last, and is never an uploaded photo.
C2_MemoryIsLatestSuccess ==
    /\ DOMAIN LAST_IMAGE_BY_CHAT \subseteq Chats
    /\ \A c \in Chats :
          /\ (c \in DOMAIN LAST_IMAGE_BY_CHAT)
                <=> (\E i \in Invs : inv[i].chat_id = c /\ inv[i].img_buf # None)
          /\ (c \in DOMAIN LAST_IMAGE_BY_CHAT) <=> (latest[c] # None)
          /\ c \in DOMAIN LAST_IMAGE_BY_CHAT =>
                /\ LAST_IMAGE_BY_CHAT[c] = latest[c]
                /\ LAST_IMAGE_BY_CHAT[c] \in GeneratedBytes
                /\ LAST_IMAGE_BY_CHAT[c] \notin Uploads

C2_Witness ==
    \E i, j \in Invs :
       /\ inv[i].chat_id = inv[j].chat_id
       /\ inv[i].img_buf = Png("G1") /\ inv[j].img_buf = Png("G2")
       /\ inv[j].kind = "photo"
       /\ LAST_IMAGE_BY_CHAT[inv[i].chat_id] = Png("G2")

C3_State ==
    \A i \in Invs :
       inv[i].user_photo = "failed" =>
          /\ inv[i].img_buf # None
          /\ inv[i].chat_id \in DOMAIN LAST_IMAGE_BY_CHAT
          /\ (\A j \in Invs \ {i} :
                 inv[j].chat_id # inv[i].chat_id \/ inv[j].img_buf = None)
                => LAST_IMAGE_BY_CHAT[inv[i].chat_id] = inv[i].img_buf
          /\ inv[i].owner_photo = "none" /\ inv[i].owner_buf = None
          /\ inv[i].pc \in {"edit_deliv", "done", "raised"}
          /\ inv[i].wait \in {"progress", "deliv_error"}
          /\ (inv[i].pc = "done" => inv[i].wait = "deliv_error")
          /\ (inv[i].pc = "raised" => inv[i].exc = "edit_text")

C3_Step ==
    \A i \in Invs :
       (StepOf(i) /\ inv'[i].user_photo = "failed")
          => LAST_IMAGE_BY_CHAT' = LAST_IMAGE_BY_CHAT

\* C3: when send_photo to the originating chat fails after a successful
\* generation, the chat's entry of LAST_IMAGE_BY_CHAT was written before and
\* no step of the invocation changes it afterwards, the only call still made
\* is the edit of the placeholder to the "generated but not delivered" text,
\* and no send_photo to the owner is issued.
C3_DeliveryFailure == []C3_State /\ [][C3_Step]_vars

C3_Witness ==
    \E i \in Invs :
       /\ inv[i].user_photo = "failed" /\ inv[i].pc = "done"
       /\ inv[i].wait = "deliv_error" /\ Truthy(OWNER_CHAT_ID)
       /\ LAST_IMAGE_BY_CHAT[inv[i].chat_id] = inv[i].img_buf

C4_State ==
    \A i \in Invs :
       (inv[i].pc = "reply_text" \/ inv[i].reply # "none") =>
          /\ ~inv[i].hg
          /\ inv[i].wait = "none"
          /\ inv[i].gw = "none" /\ inv[i].gw_calls = 0
          /\ inv[i].img_buf = None /\ inv[i].user_photo = "none"
          /\ UserMessages(i) = (IF inv[i].reply = "ok" THEN 1 ELSE 0)
          /\ (inv[i].pc = "done" => inv[i].reply = "ok")
          /\ (inv[i].pc = "raised" => inv[i].exc = "reply_text")

C4_Step ==
    \A i \in Invs :
       /\ (/\ inv[i].pc = "idle" /\ inv'[i].kind = "text"
           /\ is_edit_command(lower(inv'[i].prompt))
           /\ inv'[i].chat_id \notin DOMAIN LAST_IMAGE_BY_CHAT)
             => /\ inv'[i].pc = "reply_text"
                /\ LAST_IMAGE_BY_CHAT' = LAST_IMAGE_BY_CHAT
       /\ (StepOf(i) /\ inv[i].pc = "reply_text")
             => /\ inv'[i].pc \in {"done", "raised"}
                /\ LAST_IMAGE_BY_CHAT' = LAST_IMAGE_BY_CHAT

\* C4: a text message whose trimmed, lower-cased text starts with an edit
\* prefix, received for a chat without an entry in LAST_IMAGE_BY_CHAT, takes
\* the "nothing to edit" branch: reply_text is the only call made,
\* handle_generation is not entered (no placeholder, no gateway call) and
\* LAST_IMAGE_BY_CHAT is not changed.
C4_EditWithoutImage == []C4_State /\ [][C4_Step]_vars

C4_Witness ==
    \E i \in Invs :
       /\ inv[i].reply = "ok" /\ inv[i].pc = "done"
       /\ is_edit_command(lower(inv[i].prompt))
       /\ inv[i].prompt # lower(inv[i].prompt)

\* C5: for a prompt of fewer than 3 characters after trimming the model
\* endpoint is never called.
C5_ShortPromptRejected ==
    \A i \in Invs :
       (inv[i].pc # "idle" /\ Len(inv[i].prompt) < 3) => inv[i].gw_calls = 0

\* C6: no exception leaves handle_generation.
C6_NoErrorEscapes ==
    \A i \in Invs : inv[i].hg => inv[i].pc # "raised"

\* C7: a request that reached handle_generation and has ended left the chat
\* with the image or with exactly one failure message.
C7_ImageOrFailureMessage ==
    \A i \in Invs :
       (inv[i].hg /\ inv[i].pc \in {"done", "raised"}) =>
          \/ inv[i].user_photo = "ok"
          \/ inv[i].wait \in {"gen_error", "deliv_error"}

\* C8: send_photo to the owner is issued only when OWNER_CHAT_ID is set and
\* after the placeholder was sent, the gateway succeeded, the result was
\* stored, the photo was delivered to the originating chat and wait.delete()
\* was tried.
C8_OwnerAfterUserPath ==
    \A i \in Invs :
       (inv[i].owner_photo # "none" \/ inv[i].pc = "owner_photo") =>
          /\ Truthy(OWNER_CHAT_ID)
          /\ inv[i].wait \in {"progress", "deleted"}
          /\ inv[i].gw_calls = 1 /\ inv[i].img_buf # None
          /\ inv[i].chat_id \in DOMAIN LAST_IMAGE_BY_CHAT
          /\ inv[i].user_photo = "ok"
          /\ inv[i].wait_delete \in {"ok", "failed"}
          /\ (inv[i].wait = "deleted") <=> (inv[i].wait_delete = "ok")

C8_Witness ==
    \E i \in Invs :
       /\ inv[i].owner_photo = "ok" /\ inv[i].wait_delete = "failed"
       /\ inv[i].pc = "done"

C9_State ==
    \A i \in Invs :
       inv[i].owner_photo = "failed" =>
          /\ inv[i].pc = "done" /\ inv[i].exc = "none"
          /\ inv[i].err = "none"
          /\ inv[i].user_photo = "ok"
          /\ inv[i].wait \in {"progress", "deleted"}
          /\ inv[i].chat_id \in DOMAIN LAST_IMAGE_BY_CHAT

C9_Step ==
    \A i \in Invs :
       (StepOf(i) /\ inv'[i].owner_photo = "failed") =>
          /\ inv[i].pc = "owner_photo"
          /\ inv'[i] = [inv[i] EXCEPT !.owner_photo = "failed", !.pc = "done"]
          /\ LAST_IMAGE_BY_CHAT' = LAST_IMAGE_BY_CHAT

\* C9: when send_photo to the owner fails the invocation ends: the step
\* changes nothing but the outcome of that call, so no message of the
\* originating chat is sent, edited or deleted and LAST_IMAGE_BY_CHAT is
\* not changed.
C9_OwnerFailureIsSilent == []C9_State /\ [][C9_Step]_vars

C9_Witness ==
    \E i \in Invs :
       /\ inv[i].owner_photo = "failed" /\ inv[i].wait = "deleted"
       /\ LAST_IMAGE_BY_CHAT[inv[i].chat_id] = inv[i].img_buf

\* C10: the image sent to the owner is the image this invocation generated.
C10_OwnerGetsSameImage ==
    \A i \in Invs :
       inv[i].owner_photo # "none" => inv[i].owner_buf = inv[i].img_buf

\* C11: a failure of the placeholder's send_message does not end the
\* invocation: an invocation that entered handle_generation and ended
\* without a placeholder has called the gateway.
C11_PlaceholderFailureNotFatal ==
    \A i \in Invs :
       (inv[i].hg /\ inv[i].pc \in {"done", "raised"} /\ inv[i].wait = "none")
          => inv[i].gw # "none"

\* the order in which handle_generation and the handlers reach their awaits
PcRank(pc) ==
    CASE pc = "idle" -> 0
      [] pc = "get_file" -> 1
      [] pc = "download_to_memory" -> 2
      [] pc \in {"send_message", "reply_text"} -> 3
      [] pc \in {"edit_gen", "send_photo"} -> 4
      [] pc \in {"edit_deliv", "delete"} -> 5
      [] pc = "owner_photo" -> 6
      [] pc \in {"done", "raised"} -> 7

C12_State ==
    \A i \in Invs :
       /\ inv[i].gw_calls <= 1
       /\ GatewayFailed(i) => inv[i].pc \in {"edit_gen", "done", "raised"}
       /\ inv[i].user_photo = "failed" => inv[i].pc \in {"edit_deliv", "done", "raised"}
       /\ inv[i].owner_photo = "failed" => inv[i].pc = "done"

C12_Step ==
    \A i \in Invs :
       StepOf(i) =>
          /\ PcRank(inv'[i].pc) > PcRank(inv[i].pc)
          /\ inv'[i].gw_calls >= inv[i].gw_calls
          /\ (inv[i].gw # "none" => inv'[i].gw_calls = inv[i].gw_calls)

\* C12: an invocation calls the model endpoint at most once, and no call is
\* made again after it failed: every step moves the invocation forward to a
\* later await or to its end, and after a failed gateway call, a failed
\* delivery or a failed owner copy only the report of it follows.
C12_NoRetry == []C12_State /\ [][C12_Step]_vars

C12_Witness ==
    \E i \in Invs :
       /\ inv[i].err = "Transport" /\ inv[i].gw_calls = 1
       /\ inv[i].gw = "generate_image_from_image" /\ inv[i].pc = "done"

\* invocation i was given a reference image: a photo message, or a text
\* that is an edit command in a chat that had a stored image
ReferenceSupplied(i) ==
    \/ inv[i].kind = "photo"
    \/ /\ inv[i].kind = "text"
       /\ is_edit_command(lower(inv[i].prompt))
       /\ inv[i].has_last_image

\* C13: once the gateway has been called, the function called is
\* generate_image_from_image exactly when a reference was supplied (a photo,
\* or an edit command with a stored image, whose reference is a generated
\* image) and generate_image_from_text otherwise, with no reference; a text
\* that is no edit command uses generate_image_from_text whatever the memory.
C13_GatewayFunctionChoice ==
    \A i \in Invs :
       inv[i].gw # "none" =>
          /\ inv[i].gw = "generate_image_from_image" <=> ReferenceSupplied(i)
          /\ inv[i].gw = "generate_image_from_text" <=> ~ReferenceSupplied(i)
          /\ inv[i].kind = "photo" => inv[i].image_bytes = inv[i].photo
          /\ (inv[i].kind = "text" /\ ReferenceSupplied(i))
                => inv[i].image_bytes \in GeneratedBytes
          /\ ~ReferenceSupplied(i) => inv[i].image_bytes = None
          /\ (inv[i].kind = "text" /\ ~is_edit_command(lower(inv[i].prompt)))
                => inv[i].gw = "generate_image_from_text"

C13_Witness ==
    \E i \in Invs :
       /\ inv[i].kind = "text" /\ ~is_edit_command(lower(inv[i].prompt))
       /\ inv[i].has_last_image /\ inv[i].chat_id \in DOMAIN LAST_IMAGE_BY_CHAT
       /\ inv[i].gw = "generate_image_from_text" /\ inv[i].gw_calls = 1

\* C14: a missing ZENMUX_API_KEY is never handled as a generation failure of
\* a running process: no invocation has the RuntimeError of get_genai_client
\* caught by handle_generation and reported in its placeholder.
C14_MissingKeyIsFatalAtStartup ==
    \A i \in Invs :
       ~(inv[i].err = "NoApiKey" /\ inv[i].wait = "gen_error")

\* C15: whenever _extract_image_from_response has returned or raised, no
\* file it wrote under /tmp is left: the number of leftover files stays 0.
C15_NoLeftoverTempFiles == tmp_files = 0

\* the memory entry of chat d, None when the chat has none
MemoryOf(mem, d) == IF d \in DOMAIN mem THEN mem[d] ELSE None

\* a step of invocation i leaves the entry of every other chat as it was
C16_Writes ==
    \A i \in Invs :
       StepOf(i) =>
          \A d \in Chats \ {inv'[i].chat_id} :
             MemoryOf(LAST_IMAGE_BY_CHAT', d) = MemoryOf(LAST_IMAGE_BY_CHAT, d)

\* what a step of invocation i takes from the memory is the entry of its chat
C16_Reads ==
    \A i \in Invs :
       LET c == inv'[i].chat_id IN
       /\ (StepOf(i) /\ inv[i].pc = "idle" /\ inv'[i].kind = "text"
             /\ inv'[i].pc # "done")
            => /\ inv'[i].has_last_image = (c \in DOMAIN LAST_IMAGE_BY_CHAT)
               /\ inv'[i].base_image_bytes
                     \in {None, MemoryOf(LAST_IMAGE_BY_CHAT, c)}
       /\ (StepOf(i) /\ inv[i].pc = "send_message" /\ inv'[i].img_buf # None)
            => MemoryOf(LAST_IMAGE_BY_CHAT', c) = inv'[i].img_buf
       /\ (StepOf(i) /\ inv[i].owner_buf = None /\ inv'[i].owner_buf # None)
            => inv'[i].owner_buf = MemoryOf(LAST_IMAGE_BY_CHAT, c)

\* C16: invocations of different chats are independent with respect to
\* LAST_IMAGE_BY_CHAT: a step of an invocation of chat c changes no entry of
\* a chat other than c, and what it reads and writes is the entry of c.
C16_ChatsIndependent == [][C16_Writes /\ C16_Reads]_vars

C16_Witness ==
    \E i, j \in Invs :
       /\ inv[i].chat_id = 1 /\ inv[j].chat_id = 2
       /\ inv[i].pc = "done" /\ inv[j].pc = "done"
       /\ inv[i].img_buf \in GeneratedBytes /\ inv[j].img_buf \in GeneratedBytes
       /\ inv[i].img_buf # inv[j].img_buf
       /\ DOMAIN LAST_IMAGE_BY_CHAT = {1, 2}
       /\ LAST_IMAGE_BY_CHAT[1] = inv[i].img_buf
       /\ LAST_IMAGE_BY_CHAT[2] = inv[j].img_buf

\* p is s without its leading and trailing whitespace
IsTrimOf(p, s) ==
    /\ \E a \in 0..Len(s) : \E b \in a..Len(s) :
          /\ p = SubSeq(s, a + 1, b)
          /\ \A k \in 1..a : s[k] \in Whitespace
          /\ \A k \in (b + 1)..Len(s) : s[k] \in Whitespace
    /\ p # <<>> => (p[1] \notin Whitespace /\ p[Len(p)] \notin Whitespace)

\* C17: a photo message that reached handle_generation has as prompt its
\* caption without surrounding whitespace when that is not empty, and the
\* default variation prompt when the caption is missing or blank; its
\* reference is the uploaded photo, whatever the memory of the chat holds.
C17_PhotoPromptAndReference ==
    \A i \in Invs :
       (inv[i].kind = "photo" /\ inv[i].hg) =>
          LET cap == IF inv[i].caption = NoCaption THEN <<>> ELSE inv[i].caption[1]
              blank == \A k \in 1..Len(cap) : cap[k] \in Whitespace
          IN  /\ ~blank => IsTrimOf(inv[i].prompt, cap)
              /\ blank => inv[i].prompt = DefaultPrompt
              /\ inv[i].prompt # <<>>
              /\ inv[i].base_image_bytes = inv[i].photo
              /\ inv[i].photo \in Uploads
              /\ inv[i].base_image_bytes \notin GeneratedBytes
              /\ inv[i].gw # "none" => inv[i].image_bytes = inv[i].photo

C17_Witness ==
    \E i \in Invs :
       /\ inv[i].kind = "photo" /\ inv[i].hg
       /\ inv[i].caption = << <<"\t", "a", "b", " ">> >>
       /\ inv[i].prompt = <<"a", "b">>
       /\ inv[i].chat_id \in DOMAIN LAST_IMAGE_BY_CHAT
       /\ inv[i].gw = "generate_image_from_image"
       /\ inv[i].image_bytes \in Uploads

\* C18: when wait.delete() failed after the photo was delivered, the
\* invocation has no delivery failure and no escaped exception, the
\* placeholder still shows the progress text and no error, and the owner's
\* copy has been attempted whenever an owner chat is configured.
C18_DeleteFailureSwallowed ==
    \A i \in Invs :
       inv[i].wait_delete = "failed" =>
          /\ inv[i].user_photo = "ok"
          /\ inv[i].err = "none"
          /\ inv[i].exc = "none"
          /\ inv[i].wait = "progress"
          /\ UserMessages(i) = 2
          /\ inv[i].pc \in {"owner_photo", "done"}
          /\ Truthy(OWNER_CHAT_ID) <=> inv[i].owner_photo # "none"
          /\ (Truthy(OWNER_CHAT_ID) /\ inv[i].pc = "done")
                => inv[i].owner_photo \in {"ok", "failed"}

C18_Witness ==
    \E i \in Invs :
       /\ inv[i].wait_delete = "failed" /\ inv[i].user_photo = "ok"
       /\ inv[i].owner_photo = "ok" /\ inv[i].pc = "done"

\* the classification step of an invocation that edits the stored image
\* takes the entry of its chat as reference
C19_ReadAtClassification ==
    \A i \in DOMAIN inv :
       (StepOf(i) /\ inv[i].pc = "idle" /\ inv'[i].kind = "text"
          /\ is_edit_command(lower(inv'[i].prompt))
          /\ inv'[i].chat_id \in DOMAIN LAST_IMAGE_BY_CHAT)
         => /\ inv'[i].base_image_bytes = LAST_IMAGE_BY_CHAT[inv'[i].chat_id]
            /\ inv'[i].pc = "send_message"

\* the reference is not changed after classification, and the gateway is
\* called with it whatever LAST_IMAGE_BY_CHAT holds by then
C19_UsedAtCall ==
    \A i \in DOMAIN inv :
       /\ (StepOf(i) /\ inv[i].pc # "idle")
             => inv'[i].base_image_bytes = inv[i].base_image_bytes
       /\ (StepOf(i) /\ inv[i].pc = "send_message" /\ inv'[i].gw # "none")
             => inv'[i].image_bytes = inv[i].base_image_bytes

\* C19: the reference an invocation that edits the stored image passes to
\* the gateway is the entry of its chat read when the text was classified;
\* a store for the same chat between classification and the gateway call
\* does not change it.
C19_ReferenceReadAtClassification ==
    [][C19_ReadAtClassification /\ C19_UsedAtCall]_vars

C19_Witness ==
    \E i \in DOMAIN inv :
       /\ inv[i].kind = "text" /\ inv[i].is_edit_command
       /\ inv[i].gw = "generate_image_from_image"
       /\ inv[i].image_bytes = Png("G1")
       /\ inv[i].last_at_call = Png("G2")

\* positions of the parts of invocation i's response that carry inline data
InlineParts(i) ==
    {k \in 1..Len(inv[i].response) : inv[i].response[k].inline_data # None}

\* the gateway call of invocation i got a response from the endpoint
GotResponse(i) == inv[i].gw_calls = 1 /\ inv[i].err # "Transport"

\* C20: when the endpoint answered, the image of the invocation is that of
\* the first part of the response with inline data, whatever parts follow;
\* when no part has inline data the invocation fails with the no-image
\* error, which is reported as a generation failure after that single call.
C20_FirstInlinePart ==
    \A i \in Invs :
       /\ (GotResponse(i) /\ InlineParts(i) # {}) =>
             LET first == CHOOSE k \in InlineParts(i) :
                             \A m \in InlineParts(i) : k <= m
             IN  /\ inv[i].img_buf = Png(inv[i].response[first].inline_data)
                 /\ inv[i].err \in {"none", "Delivery"}
       /\ (GotResponse(i) /\ InlineParts(i) = {}) =>
             /\ inv[i].err = "NoImage"
             /\ inv[i].img_buf = None
             /\ inv[i].user_photo = "none"
             /\ inv[i].pc \in {"edit_gen", "done", "raised"}
             /\ inv[i].pc = "done" => inv[i].wait = "gen_error"
       /\ inv[i].err = "NoImage" => (inv[i].gw_calls = 1 /\ InlineParts(i) = {})

C20_Witness ==
    \E i \in Invs :
       /\ inv[i].response = <<ImagePart("G2"), ImagePart("G1")>>
       /\ inv[i].img_buf = Png("G2")
       /\ inv[i].user_photo = "ok"

====
